---- MODULE Spec2Model ----
(***************************************************************************)
(* Model of src/app.py, the Streamlit dashboard "SAF AI Ticket             *)
(* Intelligence Platform".  Streamlit re-executes the whole script on       *)
(* every widget event; st.session_state survives between the executions.    *)
(* One action of this model is one execution of the script, from line 1 to  *)
(* the last line or to the statement that raises.                           *)
(***************************************************************************)
EXTENDS Integers, Sequences, FiniteSets, TLC

VARIABLES
    uploaded,       \* the file uploader widget holds a file (line 62)
    job_id,         \* st.session_state.job_id
    file_uploaded,  \* st.session_state.file_uploaded
    results_df,     \* st.session_state.results_df: << >> for None, <<rows>> otherwise
    results_job,    \* job_id parameter of the classify call that produced results_df
    inflight,       \* body of a classify response that is on the wire: << >> or <<rows>>
    lastRun         \* what the last execution of the script did and rendered

vars == <<uploaded, job_id, file_uploaded, results_df, results_job, inflight, lastRun>>

(***************************************************************************)
(* Bounds of the model.                                                     *)
(***************************************************************************)
MaxRows == 2          \* rows per batch of the derivation runs
MaxSessionRows == 2   \* rows per batch of the session runs
MaxConf == 100        \* single row batches carry every confidence 0..MaxConf
MaxTotal == 50        \* KPI batches have 1..MaxTotal rows

(***************************************************************************)
(* Python and pandas values.                                                *)
(***************************************************************************)
None == "None"                \* Python None in job_id and file_uploaded
True == "True"                \* Python True in file_uploaded
NoFrame == << >>              \* Python None in results_df
Missing == "<missing>"        \* a raw row has no such key (string fields)
NaN == "nan"                  \* pandas fills a cell without value with NaN
MissingConf == 0 - 1          \* a raw row has no "confidence" key
NaNConf == 0 - 2              \* NaN in the float column "confidence"
DefaultConfidence == 80
HighConfidence == 90
ManualReview == "ManualReview"

\* Python's float comparison: every comparison with NaN is False
PyLess(a, b) == a # NaNConf /\ b # NaNConf /\ a < b
PyGreaterEq(a, b) == a # NaNConf /\ b # NaNConf /\ a >= b

confidence_band_BoundaryLow(conf) ==
    IF PyLess(conf, 70) THEN "LOW"
    ELSE IF PyLess(conf, 86) THEN "MEDIUM"
    ELSE IF PyLess(conf, 95) THEN "HIGH"
    ELSE "VERY_HIGH"

confidence_band(conf) ==
    IF PyLess(conf, 70) THEN "LOW"
    ELSE IF PyLess(conf, 85) THEN "MEDIUM"
    ELSE IF PyLess(conf, 95) THEN "HIGH"
    ELSE "VERY_HIGH"

\* `name in bot`: a float (NaN) is not iterable; among the bot names of this
\* model no name is a proper substring of another, so containment is equality
bot_badge(bot) ==
    IF bot = NaN THEN "TypeError"
    ELSE IF bot = "CancelGWSSCases" THEN "blue"
    ELSE IF bot = "RMS_India_Mendix" THEN "green"
    ELSE "red"

(***************************************************************************)
(* Classify derivation, lines 78-91.  A raw row is a record                 *)
(* [confidence, ticket_id, bot]; predicted_category and reasoning are       *)
(* carried by every raw row and are not transformed.                        *)
(***************************************************************************)
\* pd.DataFrame(list of dicts) has a column for every key some row carries
Absent(row, field) ==
    IF field = "confidence" THEN row.confidence = MissingConf ELSE row[field] = Missing

HasColumn(rows, field) == \E i \in 1..Len(rows) : ~Absent(rows[i], field)

\* df.empty
DfEmpty(rows) == Len(rows) = 0

\* df.get("confidence", 80): the column when it exists (NaN where a row has
\* no value), the scalar 80 broadcast to every row otherwise
ConfidenceColumn(rows) ==
    IF HasColumn(rows, "confidence")
    THEN [i \in 1..Len(rows) |->
            IF rows[i].confidence = MissingConf THEN NaNConf ELSE rows[i].confidence]
    ELSE [i \in 1..Len(rows) |-> DefaultConfidence]

Token(i) == "TKT-" \o ToString(i)

TicketIdColumn_ZeroBased(rows) ==
    IF HasColumn(rows, "ticket_id")
    THEN [i \in 1..Len(rows) |->
            IF rows[i].ticket_id = Missing THEN NaN ELSE rows[i].ticket_id]
    ELSE [i \in 1..Len(rows) |-> Token(i - 1)]

\* df.get("ticket_id", [f"TKT-{i+1}" for i in range(len(df))])
TicketIdColumn(rows) ==
    IF HasColumn(rows, "ticket_id")
    THEN [i \in 1..Len(rows) |->
            IF rows[i].ticket_id = Missing THEN NaN ELSE rows[i].ticket_id]
    ELSE [i \in 1..Len(rows) |-> Token(i)]

\* Series.replace({"Pega Bot": ..., "Mendix Bot": ...}) on one cell
BotReplace(bot) ==
    IF bot = "Pega Bot" THEN "CancelGWSSCases"
    ELSE IF bot = "Mendix Bot" THEN "RMS_India_Mendix"
    ELSE bot

\* df.get("bot", "ManualReview").replace({...}): without a bot column get
\* returns the str "ManualReview", and str.replace(dict) raises TypeError
BotColumn(rows) ==
    IF HasColumn(rows, "bot")
    THEN [error |-> "none",
          col |-> [i \in 1..Len(rows) |->
                     BotReplace(IF rows[i].bot = Missing THEN NaN ELSE rows[i].bot)]]
    ELSE [error |-> "TypeError", col |-> << >>]

\* lines 83-91 on a non-empty frame
Derive(rows) ==
    LET conf == ConfidenceColumn(rows)
        tid == TicketIdColumn(rows)
        bot == BotColumn(rows)
    IN  IF bot.error # "none"
        THEN [error |-> bot.error, df |-> << >>]
        ELSE [error |-> "none",
              df |-> [i \in 1..Len(rows) |->
                        [confidence |-> conf[i],
                         confidence_band |-> confidence_band(conf[i]),
                         ticket_id |-> tid[i],
                         bot |-> bot.col[i]]]]

(***************************************************************************)
(* Python floats are IEEE-754 doubles.  len(a) / len(df) * 100 rounds twice *)
(* to 53 significant bits, ties to even; int() truncates.  A double is      *)
(* [m, s] standing for m * 2^-s, m a sequence of base-2^11 limbs, most      *)
(* significant first.                                                       *)
(***************************************************************************)
MantissaBits == 53
LimbBits == 11
Base == 2^LimbBits

RECURSIVE BinExp(_, _, _)
BinExp(k, n, e) == IF k * 2^e >= n THEN e ELSE BinExp(k, n, e + 1)

RECURSIVE LongDiv(_, _, _, _)
LongDiv(cur, n, steps, digits) ==
    IF steps = 0
    THEN [q |-> Append(digits, cur \div n), r |-> cur % n]
    ELSE LongDiv((cur % n) * Base, n, steps - 1, Append(digits, cur \div n))

RECURSIVE MulAdd(_, _, _)
MulAdd(limbs, c, carry) ==
    IF Len(limbs) = 0
    THEN IF carry = 0 THEN << >> ELSE <<carry>>
    ELSE LET t == limbs[Len(limbs)] * c + carry
         IN  Append(MulAdd(SubSeq(limbs, 1, Len(limbs) - 1), c, t \div Base), t % Base)

RECURSIVE BitLen(_)
BitLen(v) == IF v = 0 THEN 0 ELSE 1 + BitLen(v \div 2)

RECURSIVE LimbsToNat(_)
LimbsToNat(limbs) ==
    IF Len(limbs) = 0 THEN 0
    ELSE LimbsToNat(SubSeq(limbs, 1, Len(limbs) - 1)) * Base + limbs[Len(limbs)]

\* k / n for 0 < k <= n, correctly rounded
FloatDiv(k, n) ==
    LET s == MantissaBits - 1 + BinExp(k, n, 0)
        d == LongDiv(k * 2^(s % LimbBits), n, s \div LimbBits, << >>)
        odd == d.q[Len(d.q)] % 2 = 1
        up == 2 * d.r > n \/ (2 * d.r = n /\ odd)
    IN  [m |-> IF up THEN MulAdd(d.q, 1, 1) ELSE d.q, s |-> s]

\* f * 100, correctly rounded
FloatMul100(f) ==
    LET p == MulAdd(f.m, 100, 0)
        d == LimbBits * (Len(p) - 1) + BitLen(p[1]) - MantissaBits
        last == p[Len(p)]
        low == last % 2^d
        kept == [p EXCEPT ![Len(p)] = last - low]
        odd == (last \div 2^d) % 2 = 1
        up == 2 * low > 2^d \/ (2 * low = 2^d /\ odd)
    IN  [m |-> IF up THEN MulAdd(kept, 1, 2^d) ELSE kept, s |-> f.s]

\* int(f) for f >= 1/2^44: the limbs above the lowest four hold the integer part
FloatToInt(f) ==
    LimbsToNat(SubSeq(f.m, 1, Len(f.m) - 4)) \div 2^(f.s - 4 * LimbBits)

\* int(k / n * 100), line 108
AutomationPct(k, n) ==
    IF k = 0 THEN 0 ELSE FloatToInt(FloatMul100(FloatDiv(k, n)))

(***************************************************************************)
(* KPI dashboard, lines 98-110.                                             *)
(***************************************************************************)
\* len(df[df.confidence >= 90])
CountHigh(df) ==
    Cardinality({i \in 1..Len(df) : PyGreaterEq(df[i].confidence, HighConfidence)})

\* len(df[df.bot != 'ManualReview']): NaN differs from every string
CountAutomated(df) == Cardinality({i \in 1..Len(df) : df[i].bot # ManualReview})

\* len(df[df.bot == 'ManualReview'])
CountManual(df) == Cardinality({i \in 1..Len(df) : df[i].bot = ManualReview})

NoKpi == << >>

KPI(df) ==
    IF Len(df) = 0
    THEN [error |-> "ZeroDivisionError", kpi |-> NoKpi]
    ELSE [error |-> "none",
          kpi |-> <<[total |-> Len(df),
                     high |-> CountHigh(df),
                     automation |-> AutomationPct(CountAutomated(df), Len(df)),
                     manual |-> CountManual(df)]>>]

(***************************************************************************)
(* Answers of the gateway.  requests raises ConnectionError when no         *)
(* response arrives; a response with an error status is returned like any   *)
(* other response, and r.json() raises JSONDecodeError on a body that is    *)
(* not JSON.                                                                *)
(***************************************************************************)
JobIds == {"J1", "J2"}
BotNames == {"Pega Bot", "Mendix Bot", ManualReview, "Others"}
TicketIds == {"A", "B"}
CorrectBots == {"CancelGWSSCases", "RMS_India_Mendix", "Others"}
StatusOk == 200
StatusError == 500

NoAnswer == [exc |-> "ConnectionError", status |-> 0]

UploadOutcomes ==
    {[exc |-> "ConnectionError", status |-> 0, job_id |-> None],
     [exc |-> "JSONDecodeError", status |-> StatusError, job_id |-> None],
     [exc |-> "none", status |-> StatusError, job_id |-> None]}
    \cup {[exc |-> "none", status |-> StatusOk, job_id |-> j] : j \in JobIds}

ClassifyOutcomes(batches) ==
    {[exc |-> "ConnectionError", status |-> 0, results |-> << >>],
     [exc |-> "JSONDecodeError", status |-> StatusError, results |-> << >>],
     [exc |-> "none", status |-> StatusError, results |-> << >>]}
    \cup {[exc |-> "none", status |-> StatusOk, results |-> b] : b \in batches}

PostOutcomes ==
    {NoAnswer, [exc |-> "none", status |-> StatusOk], [exc |-> "none", status |-> StatusError]}

Failed(call) == call.exc # "none" \/ call.status >= 400

(***************************************************************************)
(* The script, block by block.  A context carries the session state and    *)
(* what the execution has done so far; a block does nothing once a          *)
(* statement has raised.                                                    *)
(***************************************************************************)
StartContext ==
    [job_id |-> job_id, file_uploaded |-> file_uploaded,
     results_df |-> results_df, results_job |-> results_job,
     calls |-> << >>, messages |-> << >>, response |-> << >>, kpi |-> NoKpi,
     stored |-> FALSE, error |-> "none", classify_button |-> FALSE,
     approve_buttons |-> 0, reject_buttons |-> 0]

Truthy(v) == v # None

UploadNeeded_IgnoresFlag(flag, hasFile) == hasFile

\* line 64: uploaded and not st.session_state.file_uploaded
UploadNeeded(flag, hasFile) == hasFile /\ ~Truthy(flag)

\* lines 64-70
UploadBlock(ctx, hasFile, up) ==
    IF ~UploadNeeded(ctx.file_uploaded, hasFile) THEN ctx
    ELSE LET called == [ctx EXCEPT !.calls = Append(@,
                            [op |-> "upload", exc |-> up.exc, status |-> up.status])]
         IN  IF up.exc # "none"
             THEN [called EXCEPT !.error = up.exc]
             ELSE [called EXCEPT !.job_id = up.job_id,
                                 !.file_uploaded = True,
                                 !.messages = Append(@, "success: Job Created")]

ClassifyBlock_StoreEmpty(ctx, clicked, cl) ==
    IF ctx.error # "none" \/ ~Truthy(ctx.job_id) THEN ctx
    ELSE LET shown == [ctx EXCEPT !.classify_button = TRUE]
         IN  IF ~clicked THEN shown
             ELSE LET called == [shown EXCEPT !.calls = Append(@,
                                    [op |-> "classify", job_id |-> ctx.job_id,
                                     exc |-> cl.exc, status |-> cl.status])]
                      got == [called EXCEPT !.response = <<cl.results>>]
                      d == Derive(cl.results)
                  IN  IF cl.exc # "none" THEN [called EXCEPT !.error = cl.exc]
                      ELSE IF d.error # "none" /\ ~DfEmpty(cl.results)
                           THEN [got EXCEPT !.error = d.error]
                      ELSE [got EXCEPT !.results_df = <<d.df>>,
                                       !.results_job = ctx.job_id,
                                       !.stored = TRUE]

\* lines 75-93
ClassifyBlock(ctx, clicked, cl) ==
    IF ctx.error # "none" \/ ~Truthy(ctx.job_id) THEN ctx
    ELSE LET shown == [ctx EXCEPT !.classify_button = TRUE]
         IN  IF ~clicked THEN shown
             ELSE LET called == [shown EXCEPT !.calls = Append(@,
                                    [op |-> "classify", job_id |-> ctx.job_id,
                                     exc |-> cl.exc, status |-> cl.status])]
                      got == [called EXCEPT !.response = <<cl.results>>]
                      d == Derive(cl.results)
                  IN  IF cl.exc # "none" THEN [called EXCEPT !.error = cl.exc]
                      ELSE IF DfEmpty(cl.results)
                           THEN [got EXCEPT !.messages = Append(@, "warning: No results")]
                      ELSE IF d.error # "none" THEN [got EXCEPT !.error = d.error]
                      ELSE [got EXCEPT !.results_df = <<d.df>>,
                                       !.results_job = ctx.job_id,
                                       !.stored = TRUE]

\* lines 98-149
KpiBlock(ctx) ==
    IF ctx.error # "none" \/ ctx.results_df = NoFrame THEN ctx
    ELSE LET k == KPI(ctx.results_df[1])
         IN  [ctx EXCEPT !.kpi = k.kpi, !.error = k.error]

\* new_cat.split(): the maximal runs of characters other than whitespace
RECURSIVE Split(_, _, _)
Split(chars, word, acc) ==
    IF Len(chars) = 0
    THEN IF Len(word) = 0 THEN acc ELSE Append(acc, word)
    ELSE IF Head(chars) = " "
         THEN Split(Tail(chars), << >>, IF Len(word) = 0 THEN acc ELSE Append(acc, word))
         ELSE Split(Tail(chars), Append(word, Head(chars)), acc)

ApprovePayload(row) ==
    [ticketId |-> row.ticket_id, botName |-> row.bot, approvedBy |-> "HITL_User"]

FeedbackPayload(row, new_cat, new_bot) ==
    [ticket_id |-> row.ticket_id, correct_category |-> new_cat,
     keywords |-> Split(new_cat, << >>, << >>), bot_name |-> new_bot]

\* the first row whose expander label cannot be built: bot_badge raises on it
FirstBadRow(df) ==
    LET bad == {i \in 1..Len(df) : bot_badge(df[i].bot) = "TypeError"}
    IN  IF bad = {} THEN Len(df) + 1 ELSE CHOOSE i \in bad : \A j \in bad : i <= j

\* the loop of lines 157-200 when no button of it was pressed
RenderRows(ctx, df) ==
    [ctx EXCEPT !.approve_buttons = FirstBadRow(df) - 1,
                !.reject_buttons = FirstBadRow(df) - 1,
                !.error = IF FirstBadRow(df) <= Len(df) THEN "TypeError" ELSE "none"]

ReviewBlock_ClearsRows(ctx, t, ap) ==
    IF ctx.error # "none" \/ ctx.results_df = NoFrame THEN ctx
    ELSE IF t.kind \in {"approve", "reject"}
         THEN [ctx EXCEPT !.results_df = NoFrame]
         ELSE RenderRows(ctx, ctx.results_df[1])

\* lines 154-200
ReviewBlock(ctx, t, ap) ==
    IF ctx.error # "none" \/ ctx.results_df = NoFrame THEN ctx
    ELSE LET df == ctx.results_df[1]
             pressed == t.kind \in {"approve", "reject"} /\ t.row < FirstBadRow(df)
             payload == IF t.kind = "approve"
                        THEN ApprovePayload(df[t.row])
                        ELSE FeedbackPayload(df[t.row], t.new_cat, t.new_bot)
             called == [ctx EXCEPT !.calls = Append(@,
                           [op |-> IF t.kind = "approve" THEN "approve" ELSE "feedback",
                            json |-> payload, exc |-> ap.exc, status |-> ap.status])]
         IN  IF ~pressed THEN RenderRows(ctx, df)
             ELSE IF ap.exc # "none"
                  THEN [called EXCEPT !.error = ap.exc,
                                      !.approve_buttons = t.row,
                                      !.reject_buttons =
                                          IF t.kind = "approve" THEN t.row - 1 ELSE t.row]
             ELSE IF t.kind = "approve"
                  THEN RenderRows([called EXCEPT !.messages =
                           @ \o <<"success: Bot Successfully Triggered",
                                  "toast: UiPath job submitted">>], df)
             ELSE RenderRows([called EXCEPT !.messages =
                           Append(@, "warning: Feedback submitted")], df)

\* one execution of the script
\* lines 58-149: the page above the review section
PageTop(hasFile, clicked, up, cl) ==
    KpiBlock(ClassifyBlock(UploadBlock(StartContext, hasFile, up), clicked, cl))

Trigger(kind) == [kind |-> kind, row |-> 0, new_cat |-> << >>, new_bot |-> ""]
RowTrigger(kind, row, new_cat, new_bot) ==
    [kind |-> kind, row |-> row, new_cat |-> new_cat, new_bot |-> new_bot]

Snapshot == [job_id |-> job_id, file_uploaded |-> file_uploaded, results_df |-> results_df]

\* the session state and the page after the execution
Commit(hasFile, t, ctx) ==
    /\ uploaded' = hasFile
    /\ job_id' = ctx.job_id
    /\ file_uploaded' = ctx.file_uploaded
    /\ results_df' = ctx.results_df
    /\ results_job' = ctx.results_job
    /\ lastRun' = [trigger |-> t, before |-> Snapshot,
                   calls |-> ctx.calls, messages |-> ctx.messages,
                   response |-> ctx.response, stored |-> ctx.stored,
                   kpi |-> ctx.kpi, error |-> ctx.error,
                   classify_button |-> ctx.classify_button,
                   approve_buttons |-> ctx.approve_buttons,
                   reject_buttons |-> ctx.reject_buttons]

\* lines 34-36: the state of a new session, before the first execution ends
FreshRun ==
    [trigger |-> Trigger("start"),
     before |-> [job_id |-> None, file_uploaded |-> None, results_df |-> NoFrame],
     calls |-> << >>, messages |-> << >>, response |-> << >>, stored |-> FALSE,
     kpi |-> NoKpi, error |-> "none", classify_button |-> FALSE,
     approve_buttons |-> 0, reject_buttons |-> 0]

\* the execution that uploaded the file and got the job "J1"
UploadedRun ==
    [FreshRun EXCEPT !.trigger = Trigger("file"),
                     !.calls = <<[op |-> "upload", exc |-> "none", status |-> 200]>>,
                     !.messages = <<"success: Job Created">>,
                     !.classify_button = TRUE]

(***************************************************************************)
(* Inputs.                                                                  *)
(***************************************************************************)
RawRows(confs, tickets, bots) ==
    [confidence : confs, ticket_id : tickets, bot : bots]

Batches(rowSet, maxLen) == UNION {[1..n -> rowSet] : n \in 0..maxLen}

SessionRows == RawRows({96}, {Missing}, {Missing, "Pega Bot", ManualReview})
SessionBatches == Batches(SessionRows, MaxSessionRows)

\* texts typed into "Correct Category", character by character: "", "B", "B I"
CatInputs == {<< >>, <<"B">>, <<"B", " ", "I">>}

NoUpload == [exc |-> "none", status |-> 0, job_id |-> None]
NoClassify == [exc |-> "none", status |-> 0, results |-> << >>]
NoPost == [exc |-> "none", status |-> 0]

\* the answers the upload call of an execution can get, if it makes the call
UploadChoices(hasFile) ==
    IF UploadNeeded(file_uploaded, hasFile) THEN UploadOutcomes ELSE {NoUpload}

(***************************************************************************)
(* Actions of a session: every widget event executes the script once.      *)
(***************************************************************************)
\* the user puts a file into the uploader, replaces it or removes it
ChooseFile ==
    /\ inflight = << >>
    /\ \E f \in BOOLEAN : \E up \in UploadChoices(f) :
          Commit(f, Trigger("file"),
                 ReviewBlock(PageTop(f, FALSE, up, NoClassify), Trigger("file"), NoPost))
    /\ UNCHANGED inflight

\* any other event that reruns the script (an edited text input, "Rerun")
Rerun ==
    /\ inflight = << >>
    /\ \E up \in UploadChoices(uploaded) :
          Commit(uploaded, Trigger("rerun"),
                 ReviewBlock(PageTop(uploaded, FALSE, up, NoClassify),
                             Trigger("rerun"), NoPost))
    /\ UNCHANGED inflight

\* the user presses "Run AI Classification", which the last execution rendered
ClickClassify ==
    /\ inflight = << >>
    /\ lastRun.classify_button
    /\ \E up \in UploadChoices(uploaded), cl \in ClassifyOutcomes(SessionBatches) :
          Commit(uploaded, Trigger("classify"),
                 ReviewBlock(PageTop(uploaded, TRUE, up, cl), Trigger("classify"), NoPost))
    /\ UNCHANGED inflight

\* the user presses "Approve" of a row
ClickApprove ==
    /\ inflight = << >>
    /\ \E up \in UploadChoices(uploaded) :
          \E top \in {PageTop(uploaded, FALSE, up, NoClassify)} :
              \E i \in 1..lastRun.approve_buttons, ap \in PostOutcomes :
                 Commit(uploaded, RowTrigger("approve", i, << >>, ""),
                        ReviewBlock(top, RowTrigger("approve", i, << >>, ""), ap))
    /\ UNCHANGED inflight

\* the user presses "Reject" of a row, with what the two inputs of the row hold
ClickReject ==
    /\ inflight = << >>
    /\ \E up \in UploadChoices(uploaded) :
          \E top \in {PageTop(uploaded, FALSE, up, NoClassify)} :
              \E i \in 1..lastRun.reject_buttons, c \in CatInputs, b \in CorrectBots,
                 ap \in PostOutcomes :
                 Commit(uploaded, RowTrigger("reject", i, c, b),
                        ReviewBlock(top, RowTrigger("reject", i, c, b), ap))
    /\ UNCHANGED inflight

\* a new session of a process whose four endpoint URLs are configured (with one
\* missing, lines 16-18 stop every execution before the session state exists)
Init ==
    /\ uploaded = FALSE
    /\ job_id = None
    /\ file_uploaded = None
    /\ results_df = NoFrame
    /\ results_job = None
    /\ inflight = << >>
    /\ lastRun = FreshRun

Next == ChooseFile \/ Rerun \/ ClickClassify \/ ClickApprove \/ ClickReject

Spec == Init /\ [][Next]_vars

(***************************************************************************)
(* One classify run on its own: the file is uploaded, the button is        *)
(* pressed, the script waits in requests.get (line 77) for the response.    *)
(***************************************************************************)
DerivationRows == RawRows({MissingConf, 96}, {Missing} \cup TicketIds, {Missing} \cup BotNames)

BandBatches ==
    {<<[confidence |-> c, ticket_id |-> Missing, bot |-> "Pega Bot"]>> : c \in 0..MaxConf}

KpiBatch(n, k) ==
    [i \in 1..n |-> [confidence |-> 96, ticket_id |-> Missing,
                     bot |-> IF i <= k THEN "Mendix Bot" ELSE ManualReview]]

KpiBatches == UNION {{KpiBatch(n, k) : k \in 0..n} : n \in 1..MaxTotal}

DerivationBatches == Batches(DerivationRows, MaxRows) \cup BandBatches \cup KpiBatches

InitBatch ==
    /\ uploaded = TRUE
    /\ job_id = "J1"
    /\ file_uploaded = True
    /\ results_df = NoFrame
    /\ results_job = None
    /\ inflight \in {<<b>> : b \in DerivationBatches}
    /\ lastRun = UploadedRun

\* the response arrives and the script runs on to its end
ClassifyReturns ==
    /\ inflight # << >>
    /\ Commit(uploaded, Trigger("classify"),
              ReviewBlock(PageTop(uploaded, TRUE, NoUpload,
                                  [exc |-> "none", status |-> StatusOk,
                                   results |-> inflight[1]]),
                          Trigger("classify"), NoPost))
    /\ inflight' = << >>

NextBatch == ClassifyReturns

SpecBatch == InitBatch /\ [][NextBatch]_vars

(***************************************************************************)
(* Properties.                                                              *)
(***************************************************************************)
Bands == {"LOW", "MEDIUM", "HIGH", "VERY_HIGH"}

\* the rows the last execution received from the classify call and the rows
\* it stored for them
Received == lastRun.response[1]
StoredRows == results_df[1]
RowsOf(df) == 1..Len(df)

SuccessMessages ==
    {"success: Job Created", "success: Bot Successfully Triggered",
     "toast: UiPath job submitted", "warning: Feedback submitted"}

Shows(msg) == \E k \in 1..Len(lastRun.messages) : lastRun.messages[k] = msg

Issued(run, op) == \E k \in 1..Len(run.calls) : run.calls[k].op = op

SessionUnchanged ==
    /\ job_id = lastRun.before.job_id
    /\ file_uploaded = lastRun.before.file_uploaded
    /\ results_df = lastRun.before.results_df

\* C1: every numeric confidence c of a derived row has exactly the band LOW for
\* c < 70, MEDIUM for 70 <= c < 85, HIGH for 85 <= c < 95, VERY_HIGH for c >= 95
C1_BandOfConfidence ==
    lastRun.stored =>
        \A i \in RowsOf(StoredRows) :
            LET c == StoredRows[i].confidence
                band == StoredRows[i].confidence_band
            IN  c >= 0 =>
                  /\ band \in Bands
                  /\ (c < 70) = (band = "LOW")
                  /\ (70 <= c /\ c < 85) = (band = "MEDIUM")
                  /\ (85 <= c /\ c < 95) = (band = "HIGH")
                  /\ (c >= 95) = (band = "VERY_HIGH")

\* a classify run has stored a row with the boundary confidence 85, banded HIGH
C1_Witness ==
    /\ lastRun.stored
    /\ StoredRows[1].confidence = 85
    /\ StoredRows[1].confidence_band = "HIGH"

\* C2: every raw row without a confidence field gets confidence 80 and band
\* MEDIUM, whatever the other rows of the batch carry
C2_MissingConfidenceIs80 ==
    lastRun.stored =>
        \A i \in RowsOf(Received) :
            Received[i].confidence = MissingConf =>
                /\ StoredRows[i].confidence = 80
                /\ StoredRows[i].confidence_band = "MEDIUM"

\* the canonical bot name the specification gives for a raw bot field
SpecCanonical(bot) ==
    IF bot = "Pega Bot" THEN "CancelGWSSCases"
    ELSE IF bot = "Mendix Bot" THEN "RMS_India_Mendix"
    ELSE IF bot = Missing THEN "ManualReview"
    ELSE bot

\* C3: the stored bot of every row is the canonical name of its raw bot (Pega
\* Bot, Mendix Bot and an absent bot are rewritten, other names kept), and
\* canonicalizing the stored name again returns it
C3_BotCanonical ==
    lastRun.stored =>
        \A i \in RowsOf(Received) :
            /\ StoredRows[i].bot = SpecCanonical(Received[i].bot)
            /\ SpecCanonical(StoredRows[i].bot) = StoredRows[i].bot

C5_KpiValues ==
    lastRun.kpi # NoKpi =>
        LET df == StoredRows
            manual == Cardinality({i \in RowsOf(df) : df[i].bot = "ManualReview"})
            others == Cardinality({i \in RowsOf(df) : df[i].bot # "ManualReview"})
        IN  /\ lastRun.kpi[1].total = Len(df)
            /\ lastRun.kpi[1].manual = manual
            /\ lastRun.kpi[1].automation = (100 * others) \div Len(df)

\* the classify call of the last execution answered 200 with an empty list
EmptyResult ==
    /\ lastRun.trigger.kind = "classify"
    /\ lastRun.response = << << >> >>
    /\ \E k \in 1..Len(lastRun.calls) :
          lastRun.calls[k].op = "classify" /\ lastRun.calls[k].status = StatusOk

\* C6: a run whose classify call returns an empty list shows the warning,
\* stores nothing, renders no KPI section and leaves the session without rows
C6_EmptyResultNoKpi ==
    EmptyResult =>
        /\ Shows("warning: No results")
        /\ ~lastRun.stored
        /\ lastRun.kpi = NoKpi
        /\ results_df = NoFrame

\* C7: once an upload has succeeded no execution changes job_id or
\* file_uploaded, and no execution issues the upload call again
C7_JobIdFrozen ==
    [][file_uploaded = True =>
          /\ job_id' = job_id
          /\ file_uploaded' = file_uploaded
          /\ ~Issued(lastRun', "upload")]_vars

\* after the upload the user has put another file into the uploader
C7_Witness ==
    /\ lastRun.trigger.kind = "file"
    /\ lastRun.before.file_uploaded = True
    /\ uploaded
    /\ job_id \in JobIds

\* C8: an execution with a failed gateway call (no response, or an error
\* status) raises, leaves the session state as it was and shows no success
\* message
C8_FailureAborts ==
    (\E k \in 1..Len(lastRun.calls) : Failed(lastRun.calls[k])) =>
        /\ lastRun.error # "none"
        /\ SessionUnchanged
        /\ \A m \in SuccessMessages : ~Shows(m)

\* the keywords of the texts that can be typed into "Correct Category"
SpecKeywords(new_cat) ==
    IF new_cat = <<"B">> THEN << <<"B">> >>
    ELSE IF new_cat = <<"B", " ", "I">> THEN << <<"B">>, <<"I">> >>
    ELSE << >>

\* C9: an approve or reject of a row issues exactly its gateway call, with the
\* fields of that row, and leaves job_id, file_uploaded and results_df as they were
C9_ReviewFrame ==
    [][lastRun'.trigger.kind \in {"approve", "reject"} =>
          LET t == lastRun'.trigger
              row == results_df[1][t.row]
          IN  /\ job_id' = job_id
              /\ file_uploaded' = file_uploaded
              /\ results_df' = results_df
              /\ Len(lastRun'.calls) = 1
              /\ IF t.kind = "approve"
                 THEN /\ lastRun'.calls[1].op = "approve"
                      /\ lastRun'.calls[1].json =
                             [ticketId |-> row.ticket_id, botName |-> row.bot,
                              approvedBy |-> "HITL_User"]
                 ELSE /\ lastRun'.calls[1].op = "feedback"
                      /\ lastRun'.calls[1].json =
                             [ticket_id |-> row.ticket_id,
                              correct_category |-> t.new_cat,
                              keywords |-> SpecKeywords(t.new_cat),
                              bot_name |-> t.new_bot]]_vars

\* the second row of a batch was rejected with the category "B I"
C9_Witness ==
    /\ lastRun.trigger.kind = "reject"
    /\ lastRun.trigger.row = 2
    /\ lastRun.trigger.new_cat = <<"B", " ", "I">>
    /\ lastRun.error = "none"
    /\ Shows("warning: Feedback submitted")

\* C10: results_df is absent or a non-empty batch of a classify run issued with
\* the session's job_id, and no execution divides by a total of zero
C10_RowsNonEmpty ==
    /\ results_df # NoFrame =>
          /\ Len(StoredRows) > 0
          /\ job_id # None
          /\ results_job = job_id
    /\ lastRun.error # "ZeroDivisionError"
    /\ lastRun.kpi # NoKpi => lastRun.kpi[1].total > 0

\* rows are stored and a later classify call has returned an empty list
C10_Witness ==
    /\ EmptyResult
    /\ results_df # NoFrame
    /\ lastRun.kpi # NoKpi

====
